---- MODULE Spec2Model ----
(***************************************************************************)
(* Model of the Nexchat floating chat widget                               *)
(* (src/nexchat/public/js/nexchat.js, the NexchatWidget class whose        *)
(* definition ends the file, lines 336-801, and initializeNexchat).        *)
(*                                                                         *)
(* Text is a sequence of atoms.  An atom is one character, or one of the   *)
(* literal substrings the code searches for, kept whole:                   *)
(*   SR    "Select Role(s) for"                                            *)
(*   NEX   "<div class=\"nexchat-"                                         *)
(*   OPTC  "options-container\">"   (NEX OPTC is the option container)     *)
(*   FLDC  "field-container\">"     (NEX FLDC is the field container)      *)
(*   ITEMV / ITEMN / ITEMP  "option-item\" data-value=\"...\">...</div>",  *)
(*         an option item carrying the value v / next_page / prev_page     *)
(*   SRCH  "search-input\">"   (NEX SRCH is a search box)                  *)
(*   SECT  "collapsible-section\">...", a section with its header         *)
(*   BB    the bold delimiter (two asterisks)                              *)
(*   BT    the backtick character                                          *)
(***************************************************************************)
EXTENDS Integers, Sequences, FiniteSets, TLC

SR == "Select Role(s) for"
NEX == "<div class=nexchat-"
OPTC == "options-container>"
FLDC == "field-container>"
ITEMV == "option-item data-value=v>"
ITEMN == "option-item data-value=next_page>"
ITEMP == "option-item data-value=prev_page>"
SRCH == "search-input>"
SECT == "collapsible-section>"
BB == "**"
BT == "[backtick]"

Digits == {"3", "5"}

(***************************************************************************)
(* String helpers (String.prototype.includes, trim, RegExp.test).          *)
(***************************************************************************)
Includes(s, pat) ==
    \E i \in 1..(Len(s) - Len(pat) + 1) :
        \A k \in 1..Len(pat) : s[i + k - 1] = pat[k]

RECURSIVE TrimLeft(_)
TrimLeft(s) ==
    IF s # <<>> /\ Head(s) = " " THEN TrimLeft(Tail(s)) ELSE s

RECURSIVE TrimRight(_)
TrimRight(s) ==
    IF s # <<>> /\ s[Len(s)] = " " THEN TrimRight(SubSeq(s, 1, Len(s) - 1)) ELSE s

Trim(s) == TrimRight(TrimLeft(s))

AllDigits(s) == s # <<>> /\ \A k \in 1..Len(s) : s[k] \in Digits

(***************************************************************************)
(* escapeHtml: textContent -> innerHTML replaces & < > by entities.        *)
(* An atom that stands for a literal substring is escaped to the atom      *)
(* standing for its escaped form.                                          *)
(***************************************************************************)
EscapeAtom(a) ==
    CASE a = "<" -> "&lt;"
      [] a = ">" -> "&gt;"
      [] a = "&" -> "&amp;"
      [] a = NEX -> "&lt;div class=nexchat-"
      [] a = OPTC -> "options-container&gt;"
      [] a = FLDC -> "field-container&gt;"
      [] a = ITEMV -> "option-item data-value=v&gt;"
      [] a = ITEMN -> "option-item data-value=next_page&gt;"
      [] a = ITEMP -> "option-item data-value=prev_page&gt;"
      [] a = SRCH -> "search-input&gt;"
      [] a = SECT -> "collapsible-section&gt;"
      [] OTHER -> a

escapeHtml(text) == [k \in 1..Len(text) |-> EscapeAtom(text[k])]

RawAtoms == {"<", ">", "&", NEX, OPTC, FLDC, ITEMV, ITEMN, ITEMP, SRCH, SECT}

(***************************************************************************)
(* Fixed texts of the widget.                                              *)
(***************************************************************************)
Welcome1 == <<"Hello! I'm Nexchat, your ERPNext AI assistant. How can I help you today?">>
Welcome2 == <<"I can help you create documents, find information, and navigate ERPNext. What would you like to do?">>
Welcome3 == <<"Try asking me: 'Create a new customer' or 'Show me my sales orders'">>
welcomeMessages == <<Welcome1, Welcome2, Welcome3>>
ProcessingErrorText == <<"Sorry, I encountered an error processing your request. Please try again.">>
ConnectionErrorText == <<"I apologize, but I'm having trouble connecting right now. Please check your connection and try again.">>
AllRolesText == <<"all roles">>
CancelText == <<"cancel">>
ProcedureName == "nexchat.api.process_message"

(***************************************************************************)
(* addMessage: classification of a text and the markup it is mounted as.   *)
(***************************************************************************)
isRoleSelection(text) == Includes(text, <<SR>>) /\ Includes(text, <<BT>>)

isHTMLResponse(text) ==
    \/ Includes(text, <<NEX>>)
    \/ Includes(text, <<NEX, OPTC>>)
    \/ Includes(text, <<NEX, FLDC>>)

\* The role buttons of a role-selection text: the numbers n of the matches
\* of  `n`  whitespace+  **label**  (regex /`(\d+)`\s+\*\*(.*?)\*\*/g).
RECURSIVE SkipWhile(_, _, _)
SkipWhile(s, k, S) ==
    IF k <= Len(s) /\ s[k] \in S THEN SkipWhile(s, k + 1, S) ELSE k

RECURSIVE FindAtom(_, _, _)
FindAtom(s, k, a) ==
    IF k > Len(s) THEN 0 ELSE IF s[k] = a THEN k ELSE FindAtom(s, k + 1, a)

\* End position of a button match starting at k, 0 when there is none.
ButtonMatchEnd(s, k) ==
    IF k > Len(s) \/ s[k] # BT THEN 0
    ELSE LET d == SkipWhile(s, k + 1, Digits)
             w == SkipWhile(s, d + 1, {" "})
         IN IF d = k + 1 \/ d > Len(s) \/ s[d] # BT THEN 0
            ELSE IF w = d + 1 \/ w > Len(s) \/ s[w] # BB THEN 0
            ELSE FindAtom(s, w + 1, BB)

RECURSIVE RoleButtonsFrom(_, _)
RoleButtonsFrom(s, k) ==
    IF k > Len(s) THEN <<>>
    ELSE LET e == ButtonMatchEnd(s, k)
         IN IF e = 0 THEN RoleButtonsFrom(s, k + 1)
            ELSE <<SubSeq(s, k + 1, SkipWhile(s, k + 1, Digits) - 1)>>
                     \o RoleButtonsFrom(s, e + 1)

RoleButtons(text) == RoleButtonsFrom(text, 1)

\* formatRoleSelectionMessage: the text is mounted without escaping, the
\* button matches replaced by buttons, followed by the fixed action row.
RECURSIVE FormatRoleFrom(_, _)
FormatRoleFrom(s, k) ==
    IF k > Len(s) THEN <<>>
    ELSE LET e == ButtonMatchEnd(s, k)
             d == SkipWhile(s, k + 1, Digits)
             w == SkipWhile(s, d + 1, {" "})
         IN IF e = 0 THEN <<s[k]>> \o FormatRoleFrom(s, k + 1)
            ELSE <<"<button class=role-button>">> \o SubSeq(s, k + 1, d - 1)
                     \o <<"</button>", " ", "<strong>">> \o SubSeq(s, w + 1, e - 1)
                     \o <<"</strong>">> \o FormatRoleFrom(s, e + 1)

formatRoleSelectionMessage(text) ==
    <<"<div class=role-selection-content>">> \o FormatRoleFrom(text, 1)
        \o <<"<button class=assign-all-button>", "<button class=cancel-button>", "</div>">>

MessageKindAlwaysRaw(text, sender) ==
    IF isRoleSelection(text) THEN "role"
    ELSE IF isHTMLResponse(text) THEN "html"
    ELSE "plain"

MessageKindHtmlFirst(text, sender) ==
    IF isHTMLResponse(text) /\ sender = "bot" THEN "html"
    ELSE IF isRoleSelection(text) /\ sender = "bot" THEN "role"
    ELSE "plain"

MessageKindContainersOnly(text, sender) ==
    IF isRoleSelection(text) /\ sender = "bot" THEN "role"
    ELSE IF (Includes(text, <<NEX, OPTC>>) \/ Includes(text, <<NEX, FLDC>>)) /\ sender = "bot"
         THEN "html"
    ELSE "plain"

MessageKind(text, sender) ==
    IF isRoleSelection(text) /\ sender = "bot" THEN "role"
    ELSE IF isHTMLResponse(text) /\ sender = "bot" THEN "html"
    ELSE "plain"

messageContent(text, sender) ==
    CASE MessageKind(text, sender) = "role" -> formatRoleSelectionMessage(text)
      [] MessageKind(text, sender) = "html" -> text
      [] OTHER -> <<"<p>">> \o escapeHtml(text) \o <<"</p>">>

\* The element appended to #nexchat-body.
Message(text, sender) ==
    [sender |-> IF sender = "user" THEN "user" ELSE "bot",
     text |-> text,
     kind |-> MessageKind(text, sender),
     content |-> messageContent(text, sender)]

(***************************************************************************)
(* Bounds of the model.                                                    *)
(***************************************************************************)
MaxInst == 2
MaxCalls == 2
MaxTimers == 1
MaxInputLen == 5
MaxBurstCalls == 4
MaxTextCalls == 1
MaxNavCalls == 1
MaxKeyCalls == 2
MaxDownRun == 4

Insts == 1..MaxInst

(***************************************************************************)
(* What the user types and what the server answers.  The environment `env` *)
(* of a behaviour fixes the sets the inputs are drawn from:                *)
(*   page   few texts, every interleaving of the handlers of two instances *)
(*   burst  as page, successful answers only, more calls, and gestures on   *)
(*          a re-created widget before its welcome timers fire             *)
(*   text   one instance and one call, many texts                          *)
(*   nav    one instance and one call answered by an option list with a    *)
(*          search box and a collapsible section; keys and filtering       *)
(*   keys   one instance and two calls, each answered by a short option    *)
(*          list with a search box; keys, filtering and the option timer   *)
(*   timers no call; the page creates and destroys widgets while welcome   *)
(*          timers are still due                                           *)
(***************************************************************************)
KeyListText == <<NEX, OPTC, NEX, SRCH, NEX, ITEMV, NEX, ITEMN>>

NavListText == <<NEX, OPTC, NEX, SRCH, NEX, SECT, NEX, ITEMV, NEX, ITEMN, NEX, ITEMP>>

RoleItemText == <<SR, BT, "3", BT, " ", BB, "x", BB, NEX, OPTC, NEX, ITEMN>>

LeanTyped == {<<"x", " ">>}

RichTyped ==
    {<<" ">>, <<" ", "3">>, <<"3", ",", "5">>, <<"<", "&">>,
     <<SR, BT, NEX, OPTC, "<">>}

RichResponses ==
    {<<"<", "&", ">">>, <<SR>>, <<BT, "3", BT>>, <<OPTC>>,
     <<SR, BT, "3", BT, " ", BB, "x", BB, BT, "5", BT, " ", BB, "x", BB>>,
     RoleItemText,
     <<NEX, OPTC, NEX, ITEMV>>,
     <<NEX, FLDC>>,
     <<NEX, "x", ">">>,
     <<SR, NEX, OPTC>>}

SessionUsers == {"", "Guest", "Administrator"}

VARIABLES
    env,            \* the environment the inputs are drawn from
    sessionUser,    \* frappe.session.user ("" when absent)
    nexchat,        \* window.nexchat: 0 is null, otherwise the instance
    nInst,          \* NexchatWidget instances constructed so far
    isOpen,         \* this.isOpen of each instance
    isTyping,       \* this.isTyping of each instance
    dom,            \* instance whose nodes are in the document, 0 when none
    nToggle,        \* .nexchat-toggle nodes in the document
    nPanel,         \* .nexchat-widget nodes in the document
    panelHidden,    \* .nexchat-widget has class hidden
    toggleShown,    \* .nexchat-toggle is displayed
    messages,       \* .nexchat-message children of #nexchat-body, in order
    inputVal,       \* value of #nexchat-input
    inputDisabled,  \* disabled property of #nexchat-input
    sendDisabled,   \* disabled property of #nexchat-send
    typingShown,    \* #nexchat-typing has class show
    navListener,    \* instance of the document keydown.nexchat-nav listener, 0 when none
    welcomeNext,    \* per instance: index of its next welcome timer (3: all fired)
    optTimers,      \* pending selectOption timers, oldest first: their instance,
                    \* the value selected, and the calls issued and whether one
                    \* was outstanding when the timer was armed, by a click or by Enter
    calls,          \* frappe.call invocations: state, issuing instance, captured controls, message
    nCalls,         \* frappe.call invocations so far
    nUserMsgs,      \* user messages appended so far
    itemHidden,     \* option items hidden by filterOptions: their document positions
    itemFocused,    \* option items carrying the class focused
    expanded,       \* collapsible sections carrying the class expanded
    searchVal,      \* value of the search box that got the last input event
    last            \* the handler that ran last and what it found

vars == <<env, sessionUser, nexchat, nInst, isOpen, isTyping, dom, nToggle, nPanel,
          panelHidden, toggleShown, messages, inputVal, inputDisabled,
          sendDisabled, typingShown, navListener, welcomeNext, optTimers,
          calls, nCalls, nUserMsgs, itemHidden, itemFocused, expanded, searchVal,
          last>>

\* State of the option lists inside the messages.
navVars == <<itemHidden, itemFocused, expanded, searchVal>>

NoCall == [st |-> "none", inst |-> 0, dom |-> 0, method |-> "", msg |-> <<>>,
           outcome |-> "", bots |-> 0]

TypedTexts == IF env = "text" THEN RichTyped ELSE LeanTyped
ResponseTexts ==
    IF env = "text" THEN RichResponses
    ELSE IF env = "nav" THEN {NavListText, RoleItemText}
    ELSE IF env = "keys" THEN {KeyListText}
    ELSE {RoleItemText}
Outcomes ==
    IF env \in {"burst", "nav", "keys"} THEN {"ok"}
    ELSE {"ok", "noresponse", "nonstring", "nomessage", "error"}

\* What the transport hands over besides the outcome: the content of a
\* payload without a usable response, or the body of a failure.
Details(outcome) ==
    CASE outcome = "noresponse" -> {"{}", "{response: ''}", "{response: null}"}
      [] outcome = "nonstring" -> {"{response: 5}", "{response: {}}"}
      [] outcome = "nomessage" -> {"undefined", "null", "''"}
      [] outcome = "error" -> {"no responseJSON", "responseJSON.message = 'boom'",
                               "responseJSON without message"}
      [] OTHER -> {"{response: text}"}
InstBound == IF env \in {"text", "nav", "keys"} THEN 1 ELSE MaxInst
CallBound ==
    IF env = "text" THEN MaxTextCalls
    ELSE IF env = "nav" THEN MaxNavCalls
    ELSE IF env = "keys" THEN MaxKeyCalls
    ELSE IF env = "burst" THEN MaxBurstCalls
    ELSE MaxCalls

CallIds == 1..CallBound

\* The frappe.call invocations without a completion so far.
Pending == {r \in CallIds : calls[r].st = "pending"}

NoOp ==
    [op |-> "none", inst |-> 0, wasTyping |-> FALSE, res |-> "", run |-> 0,
     detail |-> "", err |-> ""]

\* The record of the handler that runs: which, on which instance, whether
\* that instance was typing when it started, and how it ended; run counts
\* the ArrowDown presses in a row since no option item was focused; detail
\* and err are what the transport handed over and the message of the Error
\* sendToBackend rejected with, at a completion.
Did(op, inst, res) ==
    [op |-> op, inst |-> inst,
     wasTyping |-> IF inst \in Insts THEN isTyping[inst] ELSE FALSE,
     res |-> res, run |-> 0, detail |-> "", err |-> ""]

Start ==
    /\ sessionUser \in SessionUsers
    /\ nexchat = 0
    /\ nInst = 0
    /\ isOpen = [i \in Insts |-> FALSE]
    /\ isTyping = [i \in Insts |-> FALSE]
    /\ dom = 0
    /\ nToggle = 0
    /\ nPanel = 0
    /\ panelHidden = TRUE
    /\ toggleShown = FALSE
    /\ messages = <<>>
    /\ inputVal = <<>>
    /\ inputDisabled = FALSE
    /\ sendDisabled = FALSE
    /\ typingShown = FALSE
    /\ navListener = 0
    /\ welcomeNext = [i \in Insts |-> 3]
    /\ optTimers = <<>>
    /\ calls = [r \in CallIds |-> NoCall]
    /\ nCalls = 0
    /\ nUserMsgs = 0
    /\ itemHidden = {}
    /\ itemFocused = {}
    /\ expanded = {}
    /\ searchVal = <<>>
    /\ last = NoOp

Init == env = "page" /\ Start
InitBurst == env = "burst" /\ Start
InitText == env = "text" /\ Start
InitNav == env = "nav" /\ Start
InitKeys == env = "keys" /\ Start
InitTimers == env = "timers" /\ Start

\* Every welcome timer armed so far has fired.
Settled == \A i \in Insts : welcomeNext[i] = 3

\* When the user and the host page act.  In the page and text environments
\* they wait for the welcome messages of the widget; in the burst environment
\* they wait for those of the first widget only, and act on a later widget
\* as soon as it is created; in the timers environment they never wait.
\* Timers and transport completions never wait.
Ready ==
    IF env = "burst" THEN welcomeNext[1] = 3
    ELSE IF env = "timers" THEN TRUE
    ELSE Settled

domVars == <<dom, nToggle, nPanel, panelHidden, toggleShown, messages, inputVal,
             inputDisabled, sendDisabled, typingShown>>

domVars_noInput == <<dom, nToggle, nPanel, panelHidden, toggleShown, messages,
                     inputDisabled, sendDisabled, typingShown>>

(***************************************************************************)
(* addMessage(text, sender) run by instance i: the element is appended to  *)
(* whatever #nexchat-body the document holds; handlers are rebound; the    *)
(* final scrollToBottom throws a TypeError when there is no #nexchat-body. *)
(***************************************************************************)
PrependMessage(list, text, sender) ==
    IF dom # 0 THEN <<Message(text, sender)>> \o list ELSE list

AppendMessageWhenShown(list, text, sender) ==
    IF dom # 0 /\ ~panelHidden THEN Append(list, Message(text, sender)) ELSE list

AppendMessage(list, text, sender) ==
    IF dom # 0 THEN Append(list, Message(text, sender)) ELSE list

\* addOptionHandlers -> addKeyboardNavigation rebinds the document listener
\* to the instance that renders, whoever the sender is.
NavAfter(nav, text, i) == IF isHTMLResponse(text) THEN i ELSE nav

addMessageThrows == dom = 0

(***************************************************************************)
(* initializeNexchat, on document ready and on every page-change.          *)
(***************************************************************************)
NeverSeesWidget == TRUE

NoWidgetYet == nexchat = 0 /\ nToggle + nPanel = 0

LoggedInIfNamed == sessionUser # ""

LoggedIn == sessionUser # "" /\ sessionUser # "Guest"

Construct(i) ==
    /\ nInst' = i
    /\ isOpen' = [isOpen EXCEPT ![i] = FALSE]
    /\ isTyping' = [isTyping EXCEPT ![i] = FALSE]
    /\ dom' = i
    /\ nToggle' = 1
    /\ nPanel' = 1
    /\ panelHidden' = TRUE
    /\ toggleShown' = TRUE
    /\ messages' = <<>>
    /\ inputVal' = <<>>
    /\ inputDisabled' = FALSE
    /\ sendDisabled' = FALSE
    /\ typingShown' = FALSE
    /\ welcomeNext' = [welcomeNext EXCEPT ![i] = 0]
    /\ itemHidden' = {}
    /\ itemFocused' = {}
    /\ expanded' = {}
    /\ searchVal' = <<>>
    /\ nexchat' = i

initializeNexchat ==
    /\ Ready
    /\ IF LoggedIn /\ NoWidgetYet
       THEN /\ nInst < InstBound
            /\ Construct(nInst + 1)
            /\ last' = Did("initialize", nInst + 1, "created")
       ELSE /\ UNCHANGED <<nexchat, nInst, isOpen, isTyping, domVars, welcomeNext, navVars>>
            /\ last' = Did("initialize", nexchat, "skipped")
    /\ UNCHANGED <<env, sessionUser, navListener, optTimers, calls, nCalls, nUserMsgs>>

(***************************************************************************)
(* destroy(), called on the global handle.                                 *)
(***************************************************************************)
destroyKeepsListener ==
    /\ Ready
    /\ nexchat # 0
    /\ dom' = 0
    /\ nToggle' = 0
    /\ nPanel' = 0
    /\ panelHidden' = TRUE
    /\ toggleShown' = FALSE
    /\ messages' = <<>>
    /\ inputVal' = <<>>
    /\ inputDisabled' = FALSE
    /\ sendDisabled' = FALSE
    /\ typingShown' = FALSE
    /\ itemHidden' = {}
    /\ itemFocused' = {}
    /\ expanded' = {}
    /\ searchVal' = <<>>
    /\ nexchat' = 0
    /\ last' = Did("destroy", nexchat, "")
    /\ UNCHANGED <<env, sessionUser, nInst, isOpen, isTyping, welcomeNext, optTimers,
                   calls, nCalls, nUserMsgs, navListener>>

destroy ==
    /\ Ready
    /\ nexchat # 0
    /\ navListener' = 0
    /\ dom' = 0
    /\ nToggle' = 0
    /\ nPanel' = 0
    /\ panelHidden' = TRUE
    /\ toggleShown' = FALSE
    /\ messages' = <<>>
    /\ inputVal' = <<>>
    /\ inputDisabled' = FALSE
    /\ sendDisabled' = FALSE
    /\ typingShown' = FALSE
    /\ itemHidden' = {}
    /\ itemFocused' = {}
    /\ expanded' = {}
    /\ searchVal' = <<>>
    /\ nexchat' = 0
    /\ last' = Did("destroy", nexchat, "")
    /\ UNCHANGED <<env, sessionUser, nInst, isOpen, isTyping, welcomeNext, optTimers,
                   calls, nCalls, nUserMsgs>>

(***************************************************************************)
(* toggleWidget, from the toggle button or the close button: both belong   *)
(* to the instance that created the nodes.                                 *)
(***************************************************************************)
toggleWidgetKeepsButton ==
    /\ Ready
    /\ dom # 0
    /\ IF isOpen[dom]
       THEN /\ panelHidden' = TRUE
            /\ isOpen' = [isOpen EXCEPT ![dom] = FALSE]
       ELSE /\ panelHidden' = FALSE
            /\ isOpen' = [isOpen EXCEPT ![dom] = TRUE]
    /\ toggleShown' = TRUE
    /\ last' = Did("toggle", dom, "")
    /\ UNCHANGED <<env, sessionUser, nexchat, nInst, isTyping, dom, nToggle, nPanel,
                   messages, inputVal, inputDisabled, sendDisabled, typingShown,
                   navListener, welcomeNext, optTimers, calls, nCalls, nUserMsgs,
                   navVars>>

toggleWidget ==
    /\ Ready
    /\ dom # 0
    /\ IF isOpen[dom]
       THEN /\ panelHidden' = TRUE
            /\ toggleShown' = TRUE
            /\ isOpen' = [isOpen EXCEPT ![dom] = FALSE]
       ELSE /\ panelHidden' = FALSE
            /\ toggleShown' = FALSE
            /\ isOpen' = [isOpen EXCEPT ![dom] = TRUE]
    /\ last' = Did("toggle", dom, "")
    /\ UNCHANGED <<env, sessionUser, nexchat, nInst, isTyping, dom, nToggle, nPanel,
                   messages, inputVal, inputDisabled, sendDisabled, typingShown,
                   navListener, welcomeNext, optTimers, calls, nCalls, nUserMsgs,
                   navVars>>

\* The user can reach the panel's content.
PanelUsable == Ready /\ dom # 0 /\ ~panelHidden

\* The user edits the input field.
TypeText ==
    /\ PanelUsable
    /\ ~inputDisabled
    /\ \E t \in TypedTexts \cup {<<>>} :
        /\ inputVal' = t
        /\ last' = Did("type", dom, "")
    /\ UNCHANGED <<env, sessionUser, nexchat, nInst, isOpen, isTyping, dom, nToggle,
                   nPanel, panelHidden, toggleShown, messages, inputDisabled,
                   sendDisabled, typingShown, navListener, welcomeNext,
                   optTimers, calls, nCalls, nUserMsgs, navVars>>

(***************************************************************************)
(* handleUserInput run by instance i on the input value val.               *)
(***************************************************************************)
NewCallRaw(i, userInput) ==
    [st |-> "pending", inst |-> i, dom |-> dom, method |-> ProcedureName,
     msg |-> inputVal, outcome |-> "", bots |-> 0]

NewCall(i, userInput) ==
    [st |-> "pending", inst |-> i, dom |-> dom, method |-> ProcedureName,
     msg |-> userInput, outcome |-> "", bots |-> 0]

RejectsOnlyEmpty(i, userInput) == userInput = <<>>

RejectsOnlyTyping(i, userInput) == isTyping[i]

RejectsSubmission(i, userInput) == userInput = <<>> \/ isTyping[i]

handleUserInput(i, via, val) ==
    LET userInput == Trim(val) IN
    IF dom = 0
    THEN \* $('#nexchat-input').val() is undefined: .trim() throws
         /\ last' = Did(via, i, "threw")
         /\ UNCHANGED <<isTyping, messages, inputVal, inputDisabled, sendDisabled,
                        typingShown, navListener, calls, nCalls, nUserMsgs>>
    ELSE IF RejectsSubmission(i, userInput)
    THEN /\ inputVal' = val
         /\ last' = Did(via, i, "ignored")
         /\ UNCHANGED <<isTyping, messages, inputDisabled, sendDisabled,
                        typingShown, navListener, calls, nCalls, nUserMsgs>>
    ELSE /\ nCalls < CallBound
         /\ messages' = AppendMessage(messages, userInput, "user")
         /\ navListener' = NavAfter(navListener, userInput, i)
         /\ inputVal' = <<>>
         /\ inputDisabled' = TRUE
         /\ sendDisabled' = TRUE
         /\ isTyping' = [isTyping EXCEPT ![i] = TRUE]
         /\ typingShown' = TRUE
         /\ calls' = [calls EXCEPT ![nCalls + 1] = NewCall(i, userInput)]
         /\ nCalls' = nCalls + 1
         /\ nUserMsgs' = nUserMsgs + 1
         /\ last' = Did(via, i, "sent")

submitFrame == <<env, sessionUser, nexchat, nInst, isOpen, dom, nToggle, nPanel,
                 panelHidden, toggleShown, welcomeNext, navVars>>

\* Click on #nexchat-send (a disabled button receives no click).
SendClick ==
    /\ PanelUsable
    /\ ~sendDisabled
    /\ handleUserInput(dom, "send", inputVal)
    /\ UNCHANGED <<submitFrame, optTimers>>

(***************************************************************************)
(* Role-selection block: numbered buttons, assign-all, cancel.             *)
(***************************************************************************)
RoleMessages == {k \in 1..Len(messages) : messages[k].kind = "role"}

RenderedRoleNumbers ==
    UNION {{RoleButtons(messages[k].text)[j] : j \in 1..Len(RoleButtons(messages[k].text))}
             : k \in RoleMessages}

selectRole(val, number) ==
    LET currentValue == Trim(val) IN
    IF currentValue = <<>> THEN number
    ELSE IF Includes(currentValue, <<",">>) \/ AllDigits(currentValue)
         THEN currentValue \o <<",">> \o number
    ELSE number

\* One click runs the inline onclick attribute of the button and the
\* jQuery click handler bound by addRoleButtonHandlers.
ClickRoleButton(val, number) == selectRole(selectRole(val, number), number)

RoleButtonClickSubmits ==
    /\ PanelUsable
    /\ \E n \in RenderedRoleNumbers :
        /\ Len(ClickRoleButton(inputVal, n)) <= MaxInputLen
        /\ handleUserInput(nexchat, "roleButton", ClickRoleButton(inputVal, n))
    /\ UNCHANGED <<submitFrame, optTimers>>

RoleButtonClick ==
    /\ PanelUsable
    /\ \E n \in RenderedRoleNumbers :
        /\ Len(ClickRoleButton(inputVal, n)) <= MaxInputLen
        /\ inputVal' = ClickRoleButton(inputVal, n)
        /\ last' = Did("roleButton", nexchat, "")
    /\ UNCHANGED <<submitFrame, isTyping, messages, inputDisabled, sendDisabled,
                   typingShown, navListener, optTimers, calls, nCalls, nUserMsgs>>

CancelClick ==
    /\ PanelUsable
    /\ RoleMessages # {}
    /\ Len(selectRole(inputVal, CancelText)) <= MaxInputLen
    /\ inputVal' = selectRole(inputVal, CancelText)
    /\ last' = Did("cancel", nexchat, "")
    /\ UNCHANGED <<submitFrame, isTyping, messages, inputDisabled, sendDisabled,
                   typingShown, navListener, optTimers, calls, nCalls, nUserMsgs>>

assignAllRolesKeepsInput ==
    /\ PanelUsable
    /\ RoleMessages # {}
    /\ handleUserInput(nexchat, "assignAll", inputVal)
    /\ UNCHANGED <<submitFrame, optTimers>>

assignAllRoles ==
    /\ PanelUsable
    /\ RoleMessages # {}
    /\ handleUserInput(nexchat, "assignAll", AllRolesText)
    /\ UNCHANGED <<submitFrame, optTimers>>

(***************************************************************************)
(* Option items of the markup mounted unescaped.                           *)
(***************************************************************************)
ItemAtoms == {ITEMV, ITEMN, ITEMP}

ItemValue(a) ==
    CASE a = ITEMV -> <<"v">>
      [] a = ITEMN -> <<"next_page">>
      [] a = ITEMP -> <<"prev_page">>

\* Text of .nexchat-option-primary and .nexchat-option-secondary of an item.
ItemPrimary(a) ==
    CASE a = ITEMV -> <<"V">>
      [] a = ITEMN -> <<"N">>
      [] a = ITEMP -> <<"P">>

ItemSecondary(a) ==
    CASE a = ITEMV -> <<"a">>
      [] a = ITEMN -> <<>>
      [] a = ITEMP -> <<"a">>

\* The elements of a class in a mounted content, in document order.
RECURSIVE ElementsIn(_, _, _)
ElementsIn(content, k, S) ==
    IF k > Len(content) THEN <<>>
    ELSE IF k > 1 /\ content[k] \in S /\ content[k - 1] = NEX
         THEN <<content[k]>> \o ElementsIn(content, k + 1, S)
    ELSE ElementsIn(content, k + 1, S)

RECURSIVE ElementsOf(_, _)
ElementsOf(list, S) ==
    IF list = <<>> THEN <<>>
    ELSE ElementsOf(SubSeq(list, 1, Len(list) - 1), S)
             \o ElementsIn(list[Len(list)].content, 1, S)

\* $('.nexchat-option-item'), $('.nexchat-collapsible-section'),
\* $('.nexchat-search-input').
AllItems == ElementsOf(messages, ItemAtoms)

SectionCount == Len(ElementsOf(messages, {SECT}))

HasSearch == ElementsOf(messages, {SRCH}) # <<>>

RECURSIVE Ascending(_)
Ascending(S) ==
    IF S = {} THEN <<>>
    ELSE LET m == CHOOSE x \in S : \A y \in S : x <= y
         IN <<m>> \o Ascending(S \ {m})

\* $('.nexchat-option-item:visible'): positions of the items that are not
\* hidden, inside a panel that is displayed.
VisibleItems ==
    IF dom = 0 \/ panelHidden THEN <<>>
    ELSE Ascending({k \in 1..Len(AllItems) : k \notin itemHidden})

RenderedItems ==
    {AllItems[k] : k \in {j \in 1..Len(AllItems) : j \notin itemHidden}}

selectOptionValue(value) ==
    IF value = <<"next_page">> THEN <<"next page">>
    ELSE IF value = <<"prev_page">> THEN <<"prev page">>
    ELSE value

\* The timer armed by selectOption on instance i for a value, after a mouse
\* click or after Enter on the focused item.
OptionTimerFor(i, value, via) ==
    [inst |-> i, value |-> value, via |-> via, at |-> nCalls, idle |-> Pending = {}]

\* Click on an option item: selectOption fills the input and arms the timer.
OptionClick ==
    /\ PanelUsable
    /\ Len(optTimers) < MaxTimers
    /\ \E a \in RenderedItems :
        /\ inputVal' = selectOptionValue(ItemValue(a))
        /\ optTimers' = Append(optTimers,
                               OptionTimerFor(nexchat, selectOptionValue(ItemValue(a)),
                                              "click"))
        /\ last' = Did("selectOption", nexchat, "")
    /\ UNCHANGED <<submitFrame, isTyping, messages, inputDisabled, sendDisabled,
                   typingShown, navListener, calls, nCalls, nUserMsgs>>

(***************************************************************************)
(* The document keydown.nexchat-nav listener bound by addKeyboardNavigation *)
(* (this is the instance that rendered last).                              *)
(***************************************************************************)
Keys == {"ArrowDown", "ArrowUp", "Enter", "Escape"}

\* The listener gets past its two early returns.
NavHandles == navListener # 0 /\ isOpen[navListener] /\ VisibleItems # <<>>

\* visibleOptions.index(currentFocus): 0-based, -1 when absent.
RECURSIVE PositionIn(_, _, _)
PositionIn(vis, x, k) ==
    IF k > Len(vis) THEN -1
    ELSE IF vis[k] = x THEN k - 1
    ELSE PositionIn(vis, x, k + 1)

CurrentIndex(vis, focused) ==
    IF focused = {} THEN -1
    ELSE PositionIn(vis, CHOOSE x \in focused : \A y \in focused : x <= y, 1)

ArrowIndexClamps(key, currentIndex, n) ==
    IF key = "ArrowDown"
    THEN IF currentIndex + 1 >= n THEN n - 1 ELSE currentIndex + 1
    ELSE IF currentIndex <= 0 THEN 0 ELSE currentIndex - 1

ArrowIndexFromSecond(key, currentIndex, n) ==
    IF key = "ArrowDown"
    THEN IF currentIndex = -1 THEN 1 % n ELSE (currentIndex + 1) % n
    ELSE IF currentIndex <= 0 THEN n - 1 ELSE currentIndex - 1

ArrowIndex(key, currentIndex, n) ==
    IF key = "ArrowDown" THEN (currentIndex + 1) % n
    ELSE IF currentIndex <= 0 THEN n - 1 ELSE currentIndex - 1

FocusAfterArrowKeepsOld(key, vis, focused) ==
    focused \cup {vis[ArrowIndex(key, CurrentIndex(vis, focused), Len(vis)) + 1]}

FocusAfterArrow(key, vis, focused) ==
    {vis[ArrowIndex(key, CurrentIndex(vis, focused), Len(vis)) + 1]}

\* ArrowDown presses in a row since no item was focused, this one included.
RunAfter(key) ==
    IF key # "ArrowDown" THEN 0
    ELSE IF itemFocused = {} THEN 1
    ELSE IF last.op = "ArrowDown" /\ last.run >= 1 /\ last.run < MaxDownRun
         THEN last.run + 1
    ELSE 0

\* The Enter branch: focusedOption.click() runs the click handler of every
\* focused item, which calls window.nexchat.selectOption.
EnterOnFocused ==
    IF itemFocused = {}
    THEN /\ last' = Did("Enter", navListener, "nofocus")
         /\ UNCHANGED <<inputVal, optTimers>>
    ELSE LET a == AllItems[CHOOSE x \in itemFocused : \A y \in itemFocused : y <= x]
             n == Cardinality(itemFocused)
         IN /\ Len(optTimers) + n <= MaxTimers
            /\ inputVal' = selectOptionValue(ItemValue(a))
            /\ optTimers' = optTimers
                   \o [k \in 1..n |-> OptionTimerFor(nexchat, selectOptionValue(ItemValue(a)),
                                                   "Enter")]
            /\ last' = Did("Enter", navListener, "clicked")

keydownFrame == <<env, sessionUser, nexchat, nInst, isOpen, isTyping, domVars_noInput,
                  navListener, welcomeNext, calls, nCalls, nUserMsgs, itemHidden,
                  expanded, searchVal>>

\* A key goes down anywhere in the document.
KeyDown ==
    /\ Ready
    /\ navListener # 0
    /\ \E key \in Keys :
        IF ~NavHandles
        THEN /\ last' = Did(key, navListener, "ignored")
             /\ UNCHANGED <<itemFocused, inputVal, optTimers>>
        ELSE IF key \in {"ArrowDown", "ArrowUp"}
        THEN /\ itemFocused' = FocusAfterArrow(key, VisibleItems, itemFocused)
             /\ last' = [Did(key, navListener, "handled") EXCEPT !.run = RunAfter(key)]
             /\ UNCHANGED <<inputVal, optTimers>>
        ELSE IF key = "Escape"
        THEN /\ itemFocused' = {}
             /\ last' = Did(key, navListener, "handled")
             /\ UNCHANGED <<inputVal, optTimers>>
        ELSE /\ EnterOnFocused
             /\ UNCHANGED itemFocused
    /\ UNCHANGED keydownFrame

\* Enter in #nexchat-input (a disabled field receives no key).  The keydown
\* reaches the document listener first; when that one handles it, it calls
\* preventDefault and no keypress follows.
EnterKey ==
    /\ PanelUsable
    /\ ~inputDisabled
    /\ IF NavHandles
       THEN /\ EnterOnFocused
            /\ UNCHANGED <<isTyping, messages, inputDisabled, sendDisabled,
                           typingShown, navListener, calls, nCalls, nUserMsgs>>
       ELSE /\ handleUserInput(dom, "enter", inputVal)
            /\ UNCHANGED optTimers
    /\ UNCHANGED submitFrame

(***************************************************************************)
(* filterOptions, from the input event of a search box, and                *)
(* toggleCollapsible, from a click on a section header.                    *)
(***************************************************************************)
Queries == {<<>>, <<" ">>, <<"v">>, <<"A">>, <<"z">>}

ToLower(c) ==
    CASE c = "V" -> "v"
      [] c = "N" -> "n"
      [] c = "P" -> "p"
      [] c = "A" -> "a"
      [] OTHER -> c

Lower(str) == [k \in 1..Len(str) |-> ToLower(str[k])]

MatchesCaseSensitive(a, searchValue) ==
    \/ Includes(ItemPrimary(a), searchValue)
    \/ Includes(ItemSecondary(a), searchValue)

Matches(a, searchValue) ==
    \/ Includes(Lower(ItemPrimary(a)), Lower(searchValue))
    \/ Includes(Lower(ItemSecondary(a)), Lower(searchValue))

filterFrame == <<env, sessionUser, nexchat, nInst, isOpen, isTyping, domVars,
                 navListener, welcomeNext, optTimers, calls, nCalls, nUserMsgs>>

filterOptionsExpandsUntrimmed ==
    /\ PanelUsable
    /\ HasSearch
    /\ \E searchValue \in Queries :
        /\ itemHidden' = {k \in 1..Len(AllItems) : ~Matches(AllItems[k], searchValue)}
        /\ expanded' = IF searchValue # <<>> THEN 1..SectionCount ELSE expanded
        /\ searchVal' = searchValue
    /\ last' = Did("filter", nexchat, "")
    /\ UNCHANGED <<filterFrame, itemFocused>>

filterOptions ==
    /\ PanelUsable
    /\ HasSearch
    /\ \E searchValue \in Queries :
        /\ itemHidden' = {k \in 1..Len(AllItems) : ~Matches(AllItems[k], searchValue)}
        /\ expanded' = IF Trim(searchValue) # <<>> THEN 1..SectionCount ELSE expanded
        /\ searchVal' = searchValue
    /\ last' = Did("filter", nexchat, "")
    /\ UNCHANGED <<filterFrame, itemFocused>>

toggleCollapsible ==
    /\ PanelUsable
    /\ \E sec \in 1..SectionCount :
        expanded' = IF sec \in expanded THEN expanded \ {sec} ELSE expanded \cup {sec}
    /\ last' = Did("collapsible", nexchat, "")
    /\ UNCHANGED <<filterFrame, itemHidden, itemFocused, searchVal>>

\* The 100 ms timer of selectOption fires.
OptionTimer ==
    /\ optTimers # <<>>
    /\ handleUserInput(Head(optTimers).inst, "timer", inputVal)
    /\ optTimers' = Tail(optTimers)
    /\ UNCHANGED submitFrame

\* A welcome timer of instance i fires (0 s, 1 s, 2 s: in order).  The burst
\* environment ends before the 1 s timer of a re-created widget is due.
WelcomeTimer ==
    /\ \E i \in Insts :
        /\ welcomeNext[i] < 3
        /\ env = "burst" => i = 1 \/ welcomeNext[i] = 0
        /\ messages' = AppendMessage(messages, welcomeMessages[welcomeNext[i] + 1], "bot")
        /\ navListener' = NavAfter(navListener, welcomeMessages[welcomeNext[i] + 1], i)
        /\ welcomeNext' = [welcomeNext EXCEPT ![i] = @ + 1]
        /\ last' = Did("welcome", i, IF addMessageThrows THEN "threw" ELSE "")
    /\ UNCHANGED <<env, sessionUser, nexchat, nInst, isOpen, isTyping, dom, nToggle,
                   nPanel, panelHidden, toggleShown, inputVal, inputDisabled,
                   sendDisabled, typingShown, optTimers, calls, nCalls, nUserMsgs,
                   navVars>>

(***************************************************************************)
(* The transport completes call r: sendToBackend settles its promise and   *)
(* the then / catch / finally continuations of handleUserInput run to      *)
(* completion as microtasks of the same task.                              *)
(*   ok          callback, r.message.response is the text                  *)
(*   noresponse  callback, r.message truthy, its response missing or falsy *)
(*   nonstring   callback, r.message.response truthy without includes():   *)
(*               addMessage throws in the then branch, the catch branch    *)
(*               mounts its text                                           *)
(*   nomessage   callback, r.message falsy: the promise rejects            *)
(*   error       error callback: the promise rejects                       *)
(***************************************************************************)
Resolves(outcome) == outcome \in {"ok", "noresponse", "nonstring"}

ReplyTextEnvelopeAgnostic(outcome, text, detail) ==
    IF outcome = "ok" THEN text
    ELSE IF outcome \in {"noresponse", "nomessage"} THEN ProcessingErrorText
    ELSE ConnectionErrorText

ReplyTextShowsDetail(outcome, text, detail) ==
    IF outcome = "ok" THEN text
    ELSE IF outcome = "noresponse" THEN ProcessingErrorText
    ELSE IF outcome = "error" THEN <<detail>>
    ELSE ConnectionErrorText

\* The message of the Error the promise of sendToBackend is rejected with
\* ("" when it is resolved): new Error(undefined) has the message "".
RejectionMessage(outcome, detail) ==
    CASE outcome = "nomessage" -> "No response from server"
      [] outcome = "error" ->
            IF detail = "no responseJSON" THEN "Server error"
            ELSE IF detail = "responseJSON.message = 'boom'" THEN "boom"
            ELSE ""
      [] OTHER -> ""

\* The text the continuation mounts: the catch branch ignores its error.
ReplyText(outcome, text, detail) ==
    IF outcome = "ok" THEN text
    ELSE IF outcome = "noresponse" THEN ProcessingErrorText
    ELSE ConnectionErrorText

\* finally re-enables the controls captured when the call was issued.
ControlsAfterReply(c, disabled) ==
    IF c.dom = dom /\ dom # 0 THEN FALSE ELSE disabled

TypingAfterReply(i) == [isTyping EXCEPT ![i] = FALSE]

Reply ==
    \E r \in CallIds, outcome \in Outcomes, text \in ResponseTexts :
      \E detail \in Details(outcome) :
        LET c == calls[r]
            i == c.inst
            shown == ReplyText(outcome, text, detail)
        IN
        /\ c.st = "pending"
        /\ outcome # "ok" => text = CHOOSE t \in ResponseTexts : TRUE
        \* hideTyping
        /\ isTyping' = TypingAfterReply(i)
        /\ typingShown' = IF dom # 0 THEN FALSE ELSE typingShown
        \* addMessage; when it throws in the then branch the catch branch
        \* runs addMessage again, which throws again after appending nothing
        /\ messages' = AppendMessage(messages, shown, "bot")
        /\ navListener' = NavAfter(navListener, shown, i)
        \* finally
        /\ inputDisabled' = ControlsAfterReply(c, inputDisabled)
        /\ sendDisabled' = ControlsAfterReply(c, sendDisabled)
        /\ calls' = [calls EXCEPT ![r] = [c EXCEPT !.st = "done", !.outcome = outcome,
                                                  !.bots = IF dom # 0 THEN 1 ELSE 0]]
        /\ last' = [Did("reply", i, outcome) EXCEPT
                        !.detail = detail, !.err = RejectionMessage(outcome, detail)]
        /\ UNCHANGED <<env, sessionUser, nexchat, nInst, isOpen, dom, nToggle, nPanel,
                       panelHidden, toggleShown, inputVal, welcomeNext, optTimers,
                       nCalls, nUserMsgs, navVars>>

Next ==
    \/ initializeNexchat
    \/ destroy
    \/ toggleWidget
    \/ TypeText
    \/ SendClick
    \/ EnterKey
    \/ RoleButtonClick
    \/ CancelClick
    \/ assignAllRoles
    \/ OptionClick
    \/ OptionTimer
    \/ WelcomeTimer
    \/ Reply

Spec == Init /\ [][Next]_vars

\* The burst environment: the gestures that submit, without the role buttons.
NextBurst ==
    \/ initializeNexchat
    \/ destroy
    \/ toggleWidget
    \/ TypeText
    \/ SendClick
    \/ assignAllRoles
    \/ OptionClick
    \/ OptionTimer
    \/ WelcomeTimer
    \/ Reply

SpecBurst == InitBurst /\ [][NextBurst]_vars

\* The text environment: one call, so the assign-all button is never pressed.
NextText ==
    \/ initializeNexchat
    \/ destroy
    \/ toggleWidget
    \/ TypeText
    \/ SendClick
    \/ EnterKey
    \/ RoleButtonClick
    \/ CancelClick
    \/ OptionClick
    \/ OptionTimer
    \/ WelcomeTimer
    \/ Reply

SpecText == InitText /\ [][NextText]_vars

\* The nav environment: the gestures on an option list.
NextNav ==
    \/ initializeNexchat
    \/ destroy
    \/ toggleWidget
    \/ TypeText
    \/ SendClick
    \/ EnterKey
    \/ OptionClick
    \/ OptionTimer
    \/ WelcomeTimer
    \/ RoleButtonClick
    \/ CancelClick
    \/ Reply
    \/ KeyDown
    \/ filterOptions
    \/ toggleCollapsible

SpecNav == InitNav /\ [][NextNav]_vars

\* The keys environment: key navigation across two rendered option lists.
NextKeys ==
    \/ initializeNexchat
    \/ toggleWidget
    \/ TypeText
    \/ SendClick
    \/ EnterKey
    \/ OptionClick
    \/ OptionTimer
    \/ WelcomeTimer
    \/ Reply
    \/ KeyDown
    \/ filterOptions

SpecKeys == InitKeys /\ [][NextKeys]_vars

\* The timers environment: widgets come and go under the welcome timers.
NextTimers ==
    \/ initializeNexchat
    \/ destroy
    \/ toggleWidget
    \/ TypeText
    \/ WelcomeTimer

SpecTimers == InitTimers /\ [][NextTimers]_vars

TypeOK ==
    /\ nexchat \in 0..InstBound
    /\ dom = nexchat
    /\ nToggle <= 1 /\ nPanel <= 1
    /\ nCalls \in 0..CallBound
    /\ itemHidden \subseteq 1..Len(AllItems)
    /\ itemFocused \subseteq 1..Len(AllItems)
    /\ expanded \subseteq 1..SectionCount
    /\ searchVal \in Queries
    /\ last.run \in 0..MaxDownRun

(***************************************************************************)
(*                               Claims                                    *)
(***************************************************************************)
SubmitOps == {"send", "enter", "assignAll", "timer"}

\* The input value handleUserInput reads in the step that sets last'.
SubmittedValue == IF last'.op = "assignAll" THEN AllRolesText ELSE inputVal

\* C1: when handleUserInput runs on an instance whose isTyping is true, no
\* transport call is issued and no message is appended, whatever the input.
C1_NoSubmitWhileTyping ==
    [][(last'.op \in SubmitOps /\ last'.wasTyping)
          => /\ nCalls' = nCalls
             /\ calls' = calls
             /\ messages' = messages
             /\ nUserMsgs' = nUserMsgs]_vars

\* C1 witness: assign-all or an option timer ran handleUserInput on a typing
\* instance with a non-empty input, and was ignored.
C1_Witness ==
    /\ last.op \in {"assignAll", "timer"}
    /\ last.wasTyping
    /\ last.res = "ignored"
    /\ Trim(inputVal) # <<>>

\* C2 (as claimed): at most one transport request is outstanding.
C2_AtMostOneOutstanding == Cardinality(Pending) <= 1

\* C3 (as claimed): one click on a numbered role button applies the
\* select-role rule once to the input, for the number of a rendered button.
C3_OneClickOneRule ==
    [][last'.op = "roleButton"
          => \E n \in RenderedRoleNumbers : inputVal' = selectRole(inputVal, n)]_vars

HasMarkers(text) ==
    \/ Includes(text, <<SR>>) /\ Includes(text, <<BT>>)
    \/ Includes(text, <<NEX>>)

FixedTexts ==
    {Welcome1, Welcome2, Welcome3, ProcessingErrorText, ConnectionErrorText}

EscapedParagraph(m) ==
    /\ m.kind = "plain"
    /\ Len(m.content) = Len(m.text) + 2
    /\ m.content[1] = "<p>"
    /\ m.content[Len(m.content)] = "</p>"
    /\ \A j \in 1..Len(m.content) : m.content[j] \notin RawAtoms

\* C4: text is mounted unescaped only for a bot message classified
\* role-selection or raw HTML; every user message, every bot text without
\* markers and every fixed text is an escaped plain paragraph.
C4_EscapedUnlessTrustedBot ==
    \A k \in 1..Len(messages) :
        LET m == messages[k] IN
        /\ m.kind # "plain" => m.sender = "bot" /\ HasMarkers(m.text)
        /\ (m.sender = "user" \/ m.text \in FixedTexts \/ ~HasMarkers(m.text))
              => EscapedParagraph(m)

\* C4 witness: a user message carrying the role-selection markers, a
\* container marker and "<" is in the list.
C4_Witness ==
    \E k \in 1..Len(messages) :
        /\ messages[k].sender = "user"
        /\ isRoleSelection(messages[k].text)
        /\ Includes(messages[k].text, <<NEX, OPTC>>)
        /\ Includes(messages[k].text, <<"<">>)

IsRoleBlock(m) ==
    /\ m.kind = "role"
    /\ m.content[1] = "<div class=role-selection-content>"
    /\ Includes(m.content, <<"<button class=assign-all-button>", "<button class=cancel-button>">>)

\* C5: a bot message whose text contains the role-selection prompt and a
\* backtick is mounted as the role-selection block, container markers or not.
C5_RoleSelectionFirst ==
    \A k \in 1..Len(messages) :
        LET m == messages[k] IN
        (m.sender = "bot" /\ Includes(m.text, <<SR>>) /\ Includes(m.text, <<BT>>))
            => IsRoleBlock(m)

\* C5 witness: such a bot message that also contains the option container.
C5_Witness ==
    \E k \in 1..Len(messages) :
        /\ messages[k].sender = "bot"
        /\ Includes(messages[k].text, <<SR>>) /\ Includes(messages[k].text, <<BT>>)
        /\ Includes(messages[k].text, <<NEX, OPTC>>)
        /\ IsRoleBlock(messages[k])

NotRoleBot(m) ==
    m.sender = "bot" /\ ~(Includes(m.text, <<SR>>) /\ Includes(m.text, <<BT>>))

HasContainerMarker(text) ==
    Includes(text, <<NEX, OPTC>>) \/ Includes(text, <<NEX, FLDC>>)

\* C6 (as claimed): a bot message that is not role-selection is mounted raw
\* if and only if its text contains the option-container or the
\* field-container marker.
C6_RawIffContainerMarker ==
    \A k \in 1..Len(messages) :
        NotRoleBot(messages[k])
            => (messages[k].kind = "html" <=> HasContainerMarker(messages[k].text))

\* C6 (amended): a bot message that is not role-selection is mounted raw if
\* and only if its text contains the prefix <div class="nexchat- (with which
\* both container markers begin); every other one is an escaped paragraph.
C6_RawIffWidgetDivPrefix ==
    \A k \in 1..Len(messages) :
        LET m == messages[k] IN
        NotRoleBot(m)
            => /\ m.kind = "html" <=> Includes(m.text, <<NEX>>)
               /\ m.kind = "html" => m.content = m.text
               /\ m.kind # "html" => EscapedParagraph(m)

\* C6 witness: a bot message with the prefix and neither container marker,
\* mounted raw.
C6_Witness ==
    \E k \in 1..Len(messages) :
        /\ NotRoleBot(messages[k])
        /\ Includes(messages[k].text, <<NEX>>)
        /\ ~HasContainerMarker(messages[k].text)
        /\ messages[k].kind = "html"
        /\ messages[k].content = messages[k].text

\* The step runs handleUserInput on a live widget, on an instance that is not
\* typing, with an input that is not blank: the submission is accepted.
Accepted ==
    /\ last'.op \in SubmitOps
    /\ dom # 0
    /\ ~last'.wasTyping
    /\ Trim(SubmittedValue) # <<>>

\* C7: an accepted submission appends one user message and issues one call
\* of the fixed procedure with the trimmed input as its message; no other
\* step issues a call or appends a user message, a completion included; so
\* the calls issued and the user messages appended are equal in number.
C7_OneCallPerSubmission ==
    [][/\ Accepted
          => /\ nCalls' = nCalls + 1
             /\ calls'[nCalls'].st = "pending"
             /\ calls'[nCalls'].method = ProcedureName
             /\ calls'[nCalls'].msg = Trim(SubmittedValue)
             /\ messages' = Append(messages, Message(Trim(SubmittedValue), "user"))
       /\ ~Accepted
          => /\ nCalls' = nCalls
             /\ \A k \in 1..Len(messages') :
                    messages'[k].sender = "user"
                        => k <= Len(messages) /\ messages[k] = messages'[k]
       /\ \A r \in CallIds : calls[r].st # "none" => calls'[r].msg = calls[r].msg
       /\ nCalls' = nUserMsgs']_vars

\* C7 witness: two submissions were accepted, the second one after the first
\* call had failed, and two calls were issued in all.
C7_Witness ==
    /\ last.op \in SubmitOps
    /\ last.res = "sent"
    /\ nCalls = 2
    /\ nUserMsgs = 2
    /\ calls[1].outcome = "error"
    /\ calls[2].st = "pending"
    /\ calls[2].msg = <<"x">>

\* C8 (as claimed): whenever the widget's isTyping is true, the input field
\* and the send control are disabled.
C8_TypingImpliesDisabled ==
    (nexchat # 0 /\ isTyping[nexchat]) => (inputDisabled /\ sendDisabled)

Completes(r) == calls[r].st = "pending" /\ calls'[r].st = "done"

\* C9 (as claimed, at the completion of a call): the widget is idle again
\* and one bot message has been appended for the submission.
C9_CompletionReturnsToIdle ==
    [][\A r \in CallIds :
          Completes(r)
            => /\ ~isTyping'[calls[r].inst]
               /\ ~inputDisabled' /\ ~sendDisabled'
               /\ Len(messages') = Len(messages) + 1
               /\ messages'[Len(messages')].sender = "bot"
               /\ SubSeq(messages', 1, Len(messages)) = messages]_vars

\* C10 (as claimed): a failure reported by the transport appends the one
\* connection-error message, ends typing, re-enables the controls, and
\* issues no call.
C10_FailureShowsApology ==
    [][\A r \in CallIds :
          (Completes(r) /\ calls'[r].outcome = "error")
            => /\ messages' = Append(messages, Message(ConnectionErrorText, "bot"))
               /\ ~isTyping'[calls[r].inst]
               /\ ~inputDisabled' /\ ~sendDisabled'
               /\ nCalls' = nCalls]_vars

\* C11 (as claimed): a successful completion whose payload has no usable
\* response (envelope falsy, or response missing or empty) mounts the fixed
\* "encountered an error" text.
C11_MalformedShowsProcessingError ==
    [][\A r \in CallIds :
          (Completes(r) /\ calls'[r].outcome \in {"noresponse", "nomessage"})
            => messages' = AppendMessage(messages, ProcessingErrorText, "bot")]_vars

\* C11 (amended): a successful completion whose envelope is truthy but whose
\* response is missing or empty mounts the "encountered an error" text; one
\* whose envelope is falsy rejects the promise and mounts the
\* connection-failure text.
C11_ProcessingErrorNeedsEnvelope ==
    [][\A r \in CallIds :
          /\ (Completes(r) /\ calls'[r].outcome = "noresponse")
                => messages' = AppendMessage(messages, ProcessingErrorText, "bot")
          /\ (Completes(r) /\ calls'[r].outcome = "nomessage")
                => messages' = AppendMessage(messages, ConnectionErrorText, "bot")]_vars

\* C11 witness: one call completed with an envelope lacking a response, a
\* later one without envelope, and both texts are in the list.
C11_Witness ==
    /\ calls[1].outcome = "noresponse"
    /\ calls[2].outcome = "nomessage"
    /\ \E j, k \in 1..Len(messages) :
        /\ j < k
        /\ messages[j].text = ProcessingErrorText
        /\ messages[k].text = ConnectionErrorText

\* C12: a submission with an empty or whitespace-only input on a live widget
\* is ignored: message list, isTyping, controls, typing indicator and calls
\* are unchanged.
C12_BlankIgnored ==
    [][(last'.op \in SubmitOps /\ dom # 0 /\ Trim(SubmittedValue) = <<>>)
          => /\ last'.res = "ignored"
             /\ UNCHANGED <<messages, isTyping, inputDisabled, sendDisabled,
                            typingShown, calls, nCalls, nUserMsgs>>]_vars

\* C12 witness: send or Enter on an idle widget whose input holds one space.
C12_Witness ==
    /\ last.op \in {"send", "enter"}
    /\ last.res = "ignored"
    /\ ~last.wasTyping
    /\ inputVal = <<" ">>

FailedOutcomes == {"noresponse", "nonstring", "nomessage", "error"}

C14_InitializeIdempotent ==
    [][/\ (last'.op = "initialize" /\ nexchat # 0)
            => UNCHANGED <<nexchat, nInst, isOpen, isTyping, domVars, navListener,
                           welcomeNext, optTimers, calls, nCalls, nUserMsgs>>
       /\ nToggle' <= 1
       /\ nPanel' <= 1]_vars

\* C14 witness: initializeNexchat ran on a page whose widget is open and has
\* answered a submission.
C14_Witness ==
    /\ last.op = "initialize"
    /\ last.res = "skipped"
    /\ nexchat # 0
    /\ isOpen[nexchat]
    /\ nToggle = 1 /\ nPanel = 1
    /\ \E r \in CallIds : calls[r].st = "done"

\* C15: without a session user, or with the guest user, nothing is created:
\* no instance, no global handle, no nodes, no welcome timer, no call.
C15_GuestCreatesNothing ==
    sessionUser \in {"", "Guest"}
        => /\ nexchat = 0 /\ nInst = 0 /\ dom = 0
           /\ nToggle = 0 /\ nPanel = 0
           /\ \A i \in Insts : welcomeNext[i] = 3
           /\ messages = <<>>
           /\ nCalls = 0

\* C15 witness: initializeNexchat ran for the guest user.
C15_Witness ==
    /\ sessionUser = "Guest"
    /\ last.op = "initialize"
    /\ last.res = "skipped"

\* C16: destroy leaves no widget node, a null global handle and no document
\* key listener; the next initialization creates one new instance with one
\* toggle button and one panel.
C16_DestroyThenInitialize ==
    [][/\ last'.op = "destroy"
            => /\ nToggle' = 0 /\ nPanel' = 0 /\ dom' = 0
               /\ nexchat' = 0
               /\ navListener' = 0
       /\ (last'.op = "initialize" /\ nexchat = 0 /\ nInst >= 1)
            => /\ nInst' = nInst + 1
               /\ nexchat' = nInst' /\ dom' = nInst'
               /\ nToggle' = 1 /\ nPanel' = 1]_vars

\* C16 witness: a widget that had a key listener was destroyed and a second
\* one was created.
C16_Witness ==
    /\ last.op = "initialize"
    /\ last.res = "created"
    /\ nInst = 2
    /\ navListener = 0
    /\ \E r \in CallIds : calls[r].st = "done" /\ calls[r].outcome = "ok" /\ calls[r].bots = 1

UserCount(list) == Cardinality({k \in 1..Len(list) : list[k].sender = "user"})

ReplyCount(list) ==
    Cardinality({k \in 1..Len(list) :
                    list[k].sender = "bot" /\ list[k].text \notin {Welcome1, Welcome2, Welcome3}})

\* C17 (as claimed): a reply that is rendered belongs to the latest user
\* message of the list it is appended to: that message was appended to this
\* list, and every earlier user message of the list has its reply before it.
C17_RepliesFollowSubmissions ==
    [][\A r \in CallIds :
          (Completes(r) /\ messages' # messages)
            => /\ calls[r].dom = dom
               /\ UserCount(messages) = ReplyCount(messages) + 1]_vars

\* C18: every operation other than destroy (send, reply, toggle, role and
\* option click, filtering, key navigation, welcome timer) leaves the
\* messages appended so far in place, in order, unchanged.
C18_AppendOnly ==
    [][last'.op # "destroy"
          => /\ Len(messages') >= Len(messages)
             /\ SubSeq(messages', 1, Len(messages)) = messages]_vars

\* C18 witness: a reply was appended behind the welcome messages and a user
\* message.
C18_Witness ==
    /\ last.op = "reply"
    /\ Len(messages) >= 5
    /\ messages[1].text = Welcome1
    /\ messages[4].sender = "user"
    /\ messages[5].sender = "bot"

\* The handled arrow presses: widget open, N >= 1 visible items.
ArrowHandled(rec) == rec.op \in {"ArrowDown", "ArrowUp"} /\ rec.res = "handled"

\* C19 (as claimed): after N ArrowDown presses in a row from the no-focus
\* state, N the number of visible items, the focus is on the first visible
\* item.
C19_NDownsReachFirst ==
    (ArrowHandled(last) /\ last.run >= 1 /\ last.run = Len(VisibleItems))
        => itemFocused = {VisibleItems[1]}

\* C19 (amended): the k-th ArrowDown press in a row from the no-focus state
\* focuses visible item ((k-1) mod N)+1: the first press focuses the first
\* item, the N-th the last, the (N+1)-th the first again, so the first item
\* is focused once in every N presses.
C19_KthDownFocusesKthItem ==
    (ArrowHandled(last) /\ last.run >= 1)
        => itemFocused = {VisibleItems[((last.run - 1) % Len(VisibleItems)) + 1]}

\* C19 witness: with two visible items around a hidden one, the third
\* ArrowDown press in a row from no-focus is back on the first item.
C19_Witness ==
    /\ ArrowHandled(last)
    /\ Len(VisibleItems) = 2
    /\ itemHidden # {}
    /\ last.run = 3
    /\ itemFocused = {VisibleItems[1]}

\* C20: with N >= 1 visible items and the widget open, ArrowDown moves the
\* focus from the i-th visible item to the ((i mod N)+1)-th, ArrowUp to the
\* (i-1)-th and from the first to the last; after an arrow key exactly one
\* item is focused and it is a visible one.
C20_ArrowsCycleOverVisible ==
    [][ArrowHandled(last')
          => LET vis == VisibleItems
                 n == Len(vis)
             IN /\ \E j \in 1..n : itemFocused' = {vis[j]}
                /\ VisibleItems' = vis
                /\ \A i \in 1..n :
                      itemFocused = {vis[i]}
                          => itemFocused' =
                                 {vis[IF last'.op = "ArrowDown" THEN (i % n) + 1
                                      ELSE IF i = 1 THEN n ELSE i - 1]}]_vars

\* C20 witness: ArrowUp was handled with an item filtered out between two
\* visible ones, and the focus is on the last visible item.
C20_Witness ==
    /\ last.op = "ArrowUp"
    /\ last.res = "handled"
    /\ Len(VisibleItems) = 2
    /\ \E k \in itemHidden : VisibleItems[1] < k /\ k < VisibleItems[2]
    /\ itemFocused = {VisibleItems[2]}

\* C21: filterOptions removes no option item; after a query an item is shown
\* exactly when its primary or secondary text contains the query, letter
\* case ignored, so a query found in no item hides them all and an empty
\* query shows them all.
C21_FilterShowsMatchesOnly ==
    [][last'.op = "filter"
          => /\ AllItems' = AllItems
             /\ \A k \in 1..Len(AllItems) :
                   (k \notin itemHidden')
                       <=> \/ Includes(Lower(ItemPrimary(AllItems[k])), Lower(searchVal'))
                           \/ Includes(Lower(ItemSecondary(AllItems[k])), Lower(searchVal'))
             /\ (searchVal' = <<>> => itemHidden' = {})]_vars

\* C21 witness: the upper-case query A was typed over three items; the two
\* with the secondary text a are shown, the one without is hidden.
C21_Witness ==
    /\ last.op = "filter"
    /\ searchVal = <<"A">>
    /\ Len(AllItems) = 3
    /\ itemHidden = {2}

\* C22 (as claimed): when the timer of an option click made with no request
\* outstanding fires, exactly one submission has been made since the click
\* whose text is the value selected, whatever gestures on the widget came
\* in between.
C22_ClickSubmitsItsValue ==
    [][(last'.op = "timer" /\ Head(optTimers).idle /\ dom = Head(optTimers).inst)
          => Cardinality({r \in (Head(optTimers).at + 1)..nCalls' :
                              calls'[r].msg = Head(optTimers).value}) = 1]_vars

\* C23: a click on the assign-all button with no request outstanding appends
\* the user message "all roles", issues one call carrying that message and
\* leaves the input empty, all in the one step.
C23_AssignAllSubmits ==
    [][(last'.op = "assignAll" /\ Pending = {})
          => /\ messages' = Append(messages, Message(AllRolesText, "user"))
             /\ nCalls' = nCalls + 1
             /\ calls'[nCalls'].st = "pending"
             /\ calls'[nCalls'].msg = AllRolesText
             /\ Pending' = {nCalls'}
             /\ inputVal' = <<>>]_vars

\* C23 witness: assign-all was clicked over a field holding other text, with
\* the earlier call completed; "all roles" went out as the second call.
C23_Witness ==
    /\ last.op = "assignAll"
    /\ last.res = "sent"
    /\ nCalls = 2
    /\ calls[1].st # "pending"
    /\ calls[2].msg = AllRolesText
    /\ messages[Len(messages)].text = AllRolesText

\* C24 (as claimed): the document carries the keydown.nexchat-nav listener
\* of at most one instance, and of none while the widget is destroyed.
C24_OneNavListenerNoneAfterDestroy ==
    /\ navListener \in 0..InstBound
    /\ (nexchat = 0 /\ dom = 0) => navListener = 0

\* C25: a toggle made while a request is outstanding changes neither
\* isTyping, nor the requests, nor the message list, nor the input value; a
\* reply that arrives while the panel is closed is appended all the same.
C25_ToggleLeavesRequestAlone ==
    [][/\ (last'.op = "toggle" /\ Pending # {})
          => /\ isTyping' = isTyping
             /\ calls' = calls
             /\ messages' = messages
             /\ inputVal' = inputVal
       /\ (last'.op = "reply" /\ dom # 0 /\ panelHidden)
          => /\ Len(messages') = Len(messages) + 1
             /\ SubSeq(messages', 1, Len(messages)) = messages
             /\ messages'[Len(messages')].sender = "bot"]_vars

\* C25 witness: the panel was closed while the only request was outstanding
\* and its reply is the last message of the closed panel.
C25_Witness ==
    /\ last.op = "reply"
    /\ nCalls = 1
    /\ dom # 0
    /\ panelHidden
    /\ ~isOpen[dom]
    /\ messages[Len(messages)].sender = "bot"
    /\ Len(messages) = 5

\* C26: a toggle flips isOpen of the widget, so two in a row restore it; with
\* a live widget the panel is shown exactly when isOpen is true and the
\* toggle button exactly when it is false; a widget just created is closed.
C26_PanelFollowsIsOpen ==
    [][/\ last'.op = "toggle" => isOpen'[dom] = ~isOpen[dom]
       /\ dom' # 0 => /\ ~panelHidden' <=> isOpen'[dom']
                      /\ toggleShown' <=> ~isOpen'[dom']
       /\ (last'.op = "initialize" /\ last'.res = "created")
          => ~isOpen'[dom'] /\ panelHidden' /\ toggleShown']_vars

\* C26 witness: the second widget of the page was opened and closed again,
\* and shows its toggle button and no panel.
C26_Witness ==
    /\ last.op = "toggle"
    /\ dom = 2
    /\ ~isOpen[2]
    /\ panelHidden
    /\ toggleShown
    /\ inputVal # <<>>

\* C27: a click on a numbered role button issues no call, appends no message
\* and changes neither isTyping nor isOpen: of the whole state only the value
\* of the input field may change.
C27_RoleClickOnlyFillsInput ==
    [][last'.op = "roleButton"
          => /\ nCalls' = nCalls
             /\ calls' = calls
             /\ messages' = messages
             /\ isTyping' = isTyping
             /\ isOpen' = isOpen
             /\ UNCHANGED <<nexchat, nInst, dom, nToggle, nPanel, panelHidden,
                            toggleShown, inputDisabled, sendDisabled, typingShown,
                            navListener, welcomeNext, optTimers, nUserMsgs, navVars>>]_vars

\* C27 witness: a role button was clicked while a second request was
\* outstanding; the field holds a role number and nothing was submitted.
C27_Witness ==
    /\ last.op = "roleButton"
    /\ nCalls = 2
    /\ Pending = {2}
    /\ inputVal # <<>>
    /\ nUserMsgs = 2

\* C28: at most one option item carries the class focused, whatever arrow
\* keys, Escape presses, filter queries and further option lists came.
C28_AtMostOneFocused == Cardinality(itemFocused) <= 1

\* C28 witness: with two option lists rendered and an item filtered out, an
\* arrow key has put the focus on an item of the second list.
C28_Witness ==
    /\ ArrowHandled(last)
    /\ Len(AllItems) = 4
    /\ itemHidden # {}
    /\ \E k \in 3..4 : itemFocused = {k}

\* C29 (as claimed): Enter pressed with the widget open, no request
\* outstanding and a visible item focused runs that item's click handler
\* once (the field takes the item's value and one timer is armed), and when
\* that timer fires exactly one submission of the value has been made.
C29_EnterSubmitsFocusedItem ==
    [][/\ (/\ last'.op = "Enter"
           /\ dom # 0 /\ isOpen[dom] /\ navListener = dom
           /\ Pending = {}
           /\ \E k \in itemFocused : k \notin itemHidden)
          => \E k \in itemFocused :
                /\ itemFocused = {k}
                /\ inputVal' = selectOptionValue(ItemValue(AllItems[k]))
                /\ Len(optTimers') = Len(optTimers) + 1
                /\ optTimers'[Len(optTimers')].value = inputVal'
       /\ (/\ last'.op = "timer"
           /\ Head(optTimers).via = "Enter"
           /\ Head(optTimers).idle
           /\ dom = Head(optTimers).inst)
          => Cardinality({r \in (Head(optTimers).at + 1)..nCalls' :
                              calls'[r].msg = Head(optTimers).value}) = 1]_vars

\* C30 (as claimed): with the widget open and an option list rendered, an
\* Escape press leaves no item focused, also when the focused item is
\* hidden by the filter and no item is visible.
C30_EscapeClearsFocus ==
    [][(/\ last'.op = "Escape"
        /\ dom # 0 /\ isOpen[dom] /\ navListener = dom
        /\ AllItems # <<>>)
          => itemFocused' = {}]_vars

\* C31 (as claimed): after a filter with a non-empty query, one of white
\* space only included, every collapsible section is expanded; after a
\* filter with the empty query the expanded sections are the same as before.
C31_NonEmptyQueryExpands ==
    [][last'.op = "filter"
          => IF searchVal' # <<>> THEN expanded' = 1..SectionCount
             ELSE expanded' = expanded]_vars

\* C31 (amended): after a filter with a query that has a character other
\* than white space every collapsible section is expanded; after a filter
\* with an empty or white-space-only query the expanded sections are the
\* same as before.
C31_NonBlankQueryExpands ==
    [][last'.op = "filter"
          => IF Trim(searchVal') # <<>> THEN expanded' = 1..SectionCount
             ELSE expanded' = expanded]_vars

\* C31 witness: a query of one space was typed over a collapsed section,
\* which is still collapsed.
C31_Witness ==
    /\ last.op = "filter"
    /\ searchVal = <<" ">>
    /\ SectionCount = 1
    /\ expanded = {}

\* The texts of the welcome messages of a list, in the order of the list.
RECURSIVE WelcomeTexts(_)
WelcomeTexts(list) ==
    IF list = <<>> THEN <<>>
    ELSE LET m == list[Len(list)]
             front == WelcomeTexts(SubSeq(list, 1, Len(list) - 1))
         IN IF m.sender = "bot" /\ \E k \in 1..3 : m.text = welcomeMessages[k]
            THEN Append(front, m.text)
            ELSE front

\* C32 (as claimed): the message list of a live widget holds the welcome
\* messages its timers have appended so far, each once and in the fixed
\* order, hence exactly the three of them once its timers have fired, also
\* when an earlier widget was destroyed with welcome timers still due.
C32_ThreeWelcomeMessagesOnce ==
    dom # 0 => WelcomeTexts(messages) = SubSeq(welcomeMessages, 1, welcomeNext[dom])

\* C33 (as claimed): the completion of a call issued by an instance that
\* has been destroyed since appends nothing to the message list of the
\* widget now on the page and changes neither its typing indicator nor its
\* controls.
C33_StaleReplyTouchesNothing ==
    [][\A r \in CallIds :
          (Completes(r) /\ dom # 0 /\ calls[r].inst # dom)
            => /\ messages' = messages
               /\ typingShown' = typingShown
               /\ isTyping'[dom] = isTyping[dom]
               /\ inputDisabled' = inputDisabled
               /\ sendDisabled' = sendDisabled]_vars

\* C34 (as claimed): an Enter press does not activate an item hidden by the
\* filter: with the focused item filtered out, the field keeps its value and
\* no selectOption timer is armed.
C34_EnterSparesHiddenItem ==
    [][(/\ last'.op = "Enter"
        /\ itemFocused # {}
        /\ itemFocused \subseteq itemHidden)
          => /\ inputVal' = inputVal
             /\ optTimers' = optTimers]_vars

\* C35 (as claimed): while the widget on the page is typing and its input is
\* disabled, a click on a role button, on Cancel, on assign-all or on an
\* option item leaves the value of the input field as it was.
C35_ClicksSpareDisabledInput ==
    [][(/\ last'.op \in {"roleButton", "cancel", "assignAll", "selectOption"}
        /\ dom # 0
        /\ isTyping[dom]
        /\ inputDisabled)
          => inputVal' = inputVal]_vars

\* C36 (as claimed): a click on the Cancel button of a role-selection block
\* leaves the input field equal to "cancel" whatever it held, and submits
\* nothing.
C36_CancelWritesCancel ==
    [][last'.op = "cancel"
          => /\ inputVal' = CancelText
             /\ nCalls' = nCalls
             /\ calls' = calls
             /\ messages' = messages]_vars

\* C37 (as claimed): at a transport failure the promise of sendToBackend is
\* rejected with the message of the JSON body when the failure carries one
\* with a message, and with "Server error" otherwise, a JSON body without a
\* message included; a call that has completed never completes again.
C37_RejectionCarriesServerMessage ==
    [][/\ (last'.op = "reply" /\ last'.res = "error")
          => last'.err = IF last'.detail = "responseJSON.message = 'boom'" THEN "boom"
                         ELSE "Server error"
       /\ \A r \in CallIds : calls[r].st = "done" => calls'[r] = calls[r]]_vars

====
